---------------------------- MODULE Spec2Model ----------------------------
(***************************************************************************)
(* Model of the Hacker News scraper robot (src/python/hn_scraper.py):      *)
(* main() drives one run: read the task, open the browser session, search  *)
(* result pages (search_hn_posts), optionally scan comment threads         *)
(* (scrape_hn_comments), emit the report and close the task.  The browser  *)
(* and the site behind it are the environment: what a page or a thread     *)
(* holds, and whether a navigation raises or a wait times out, is chosen   *)
(* nondeterministically from bounded pools.                                *)
(*                                                                         *)
(* The second part models the file-upload test robots                      *)
(* (src/python/file_upload_test_robot.py, src/python/test_file_upload.py): *)
(* the tests track the resources they create and the finally clause of     *)
(* the test run deletes them.                                              *)
(***************************************************************************)
EXTENDS Integers, Sequences, FiniteSets, TLC

VARIABLES
    program,         \* which robot runs: "hn_scraper", "robot" or "test"
    pc,              \* position of main()
    delivered,       \* environment: the task eywa.get_task() returns
    task,            \* main: the parameters read from the task
    site,            \* environment: the kinds of Story element the site serves
    stock,           \* environment: how many Story elements the site holds
    pagemin,         \* environment: the least number of stories on a full page
    forum,           \* environment: the comment threads the site serves
    driver,          \* "none" | "open" | "quit"
    matches,         \* search_hn_posts: the accumulator
    page,            \* search_hn_posts: the 1-based page counter
    ci,              \* main: index of the next post of post_matches[:5]
    comment_matches, \* main: the comment accumulator
    report,          \* <<>> before eywa.report, <<payload>> after
    status,          \* task status signalled to eywa
    fetched,         \* history: the result pages the browser rendered, in order
    log,             \* history: the externally visible events, in order
    test_resources,  \* file-upload robots: the tracked resources, in order
    test_passed,     \* file-upload robots: counter of passed checks
    test_failed,     \* file-upload robots: counter of failed checks
    test_results,    \* file-upload robots: number of recorded results
    text_file_uuid,  \* file-upload robots: what test_upload_text_file returned
    success          \* file-upload robots: what the test run returns to main()

\* what the environment holds: no step of a robot changes it
env == <<delivered, site, stock, pagemin, forum>>

\* the state of the file-upload robots
suite == <<program, test_resources, test_passed, test_failed, test_results,
           text_file_uuid, success>>

\* the state of the scraper's browser session and accumulators
scraper == <<driver, matches, page, ci, comment_matches, report, fetched>>

vars == <<pc, task, env, suite, scraper, status, log>>

-----------------------------------------------------------------------------
(* Bounds of the environment *)

\* total number of Story elements the site serves during one run
MaxEntries == 5
\* largest max_results a task asks for
MaxBudget == 2
\* how many matches beyond the leading subset a long run accumulates
DeepExtra == 1
\* how many characters beyond text[:200] the longest comment has
TextExtra == 1
\* how many stories beyond one per page of the ceiling the largest site holds
PagesBeyond == 1
\* how many comments beyond comments[:50] the longest thread has
CommentsBeyond == 1

(* Program constants *)

\* while ... page <= 5
MaxPages == 5
\* post_matches[:5]
TopPosts == 5
\* comments[:50]
MaxComments == 50
\* text[:200]
MaxCommentText == 200

-----------------------------------------------------------------------------
(* Text and patterns.  A text is a sequence of one-character strings. *)

Lower(c) ==
    CASE c = "A" -> "a"
      [] c = "B" -> "b"
      [] c = "E" -> "e"
      [] c = "L" -> "l"
      [] c = "P" -> "p"
      [] c = "R" -> "r"
      [] c = "W" -> "w"
      [] c = "Y" -> "y"
      [] OTHER -> c

\* mutant: the pattern is never validated
CompilesAlways(p) == TRUE

\* re.compile(regex_pattern, re.IGNORECASE): raises on an unbalanced "("
Compiles(p) == \A i \in 1..Len(p) : p[i] # "("

\* the positions of a pattern where an alternative starts: the first one,
\* and the one after each "|"
AltStarts(p) == {1} \cup {j + 1 : j \in {h \in 1..Len(p) : p[h] = "|"}}

\* the alternative of p that starts at position j stands in text at
\* position i, letter case ignored
RECURSIVE MatchAt(_, _, _, _)
MatchAt(p, j, text, i) ==
    IF j > Len(p) \/ p[j] = "|" THEN TRUE
    ELSE /\ i <= Len(text)
         /\ Lower(text[i]) = Lower(p[j])
         /\ MatchAt(p, j + 1, text, i + 1)

\* pattern.search(text) is not None
Search(p, text) ==
    LET starts == AltStarts(p)
    IN  \E i \in 1..(Len(text) + 1) : \E j \in starts : MatchAt(p, j, text, i)

\* the length of the alternative of p that starts at position j
RECURSIVE AltLen(_, _)
AltLen(p, j) ==
    IF j > Len(p) \/ p[j] = "|" THEN 0 ELSE 1 + AltLen(p, j + 1)

\* pattern.search(text).group(0): the leftmost match, and at that position
\* the first alternative that matches
MatchedText(p, text) ==
    LET At(i) == {j \in AltStarts(p) : MatchAt(p, j, text, i)}
        i0 == CHOOSE i \in 1..(Len(text) + 1) :
                  /\ At(i) # {}
                  /\ \A h \in 1..(i - 1) : At(h) = {}
        j0 == CHOOSE j \in At(i0) : \A h \in At(i0) : j <= h
    IN  SubSeq(text, i0, i0 + AltLen(p, j0) - 1)

-----------------------------------------------------------------------------
(* The environment's pools *)

PatAl == <<"a", "l">>
PatBad == <<"(", "a">>
Patterns == {PatAl, PatBad}

\* r'EYWA|eywa', the default of regex_pattern
PatEywa == <<"E", "Y", "W", "A", "|", "e", "y", "w", "a">>

\* r'robot|robotic|RPA|automation', the pattern of test_hn_custom.py
PatRobot ==
    <<"r", "o", "b", "o", "t", "|", "r", "o", "b", "o", "t", "i", "c", "|",
      "R", "P", "A", "|", "a", "u", "t", "o", "m", "a", "t", "i", "o", "n">>

\* A Story element as the browser renders it.
\*   titleLink: Story_title holds an <a>;  title/href: its text and href
\*   meta: the Story_meta element exists;  pts/cmts/age: what the three
\*   regexes over meta.text capture (<<>> when they do not match)
\*   clink: href of the link whose text contains "comment"
\*          ("missing" when there is no such link)
Story(tl, title, href, pts, cmts, clink) ==
    [titleLink |-> tl, title |-> title, href |-> href, meta |-> TRUE,
     pts |-> pts, cmts |-> cmts, age |-> <<"3 hours ago">>, clink |-> clink]

StAlpha == Story(TRUE, <<"A", "l">>, "u1", <<7>>, <<>>, "missing")
StAlthread == Story(TRUE, <<"a", "L", "t">>, "u2", <<3>>, <<2>>, "t2")
StBeta == Story(TRUE, <<"b", "e">>, "u3", <<>>, <<1>>, "t3")
StBroken == Story(FALSE, <<>>, "None", <<>>, <<>>, "missing")
StNoLink == Story(TRUE, <<"a", "l", "x">>, "u4", <<1>>, <<4>>, "missing")
\* the title link has no href attribute: get_attribute("href") is None
StNoUrl == Story(TRUE, <<"a", "l", "n">>, "None", <<2>>, <<>>, "missing")
\* the discussion link has no href attribute
StDeadLink == Story(TRUE, <<"a", "l", "d">>, "u5", <<1>>, <<3>>, "None")

\* a second matching story with a thread of its own
StGamma == Story(TRUE, <<"a", "l", "g">>, "u7", <<5>>, <<1>>, "t7")

\* a site whose stories all match: two with a thread each, one without
SiteThreads == {StAlpha, StAlthread, StGamma}

\* a site whose markup always parses, one that also serves stories without
\* a title link, and one that also serves stories that announce comments
\* but carry no discussion link
SiteClean == {StAlpha, StAlthread, StBeta}
SiteBroken == {StAlthread, StBroken}
SiteNoLink == {StAlpha, StNoLink}
Sites == {SiteClean, SiteBroken, SiteNoLink}

\* a site some of whose links lack their href attribute
SiteNoHref == {StAlthread, StNoUrl, StDeadLink}

\* the Story_meta element is missing: find_element raises
StNoMeta ==
    [Story(TRUE, <<"a", "l", "m">>, "u6", <<>>, <<>>, "missing")
        EXCEPT !.meta = FALSE]

\* a site some of whose stories do not parse
SiteMarkup == {StAlpha, StAlthread, StBroken, StNoMeta}

\* A comment element: its text, whether it holds a comhead element, and the
\* hnuser elements' texts inside it.
Comment(text, comhead, users) ==
    [text |-> text, comhead |-> comhead, users |-> users]

CmHit == Comment(<<"A", "L", "!">>, TRUE, <<"pg">>)
CmMiss == Comment(<<"n", "o">>, TRUE, <<"dang">>)
CmAnon == Comment(<<"x", "a", "l">>, TRUE, <<>>)

ThreadPool == {<<CmMiss, CmHit>>, <<CmHit, CmAnon>>}

\* a comment text of n characters that PatAl matches
LongText(n) ==
    [i \in 1..n |-> IF i = 1 THEN "a" ELSE IF i = 2 THEN "l" ELSE "x"]

CmLong(n) == Comment(LongText(n), TRUE, <<"pg">>)

\* threads whose comments are around MaxCommentText characters long
LongThreads ==
    {<<CmMiss, CmLong(n), CmLong(n + 1)>> :
        n \in (MaxCommentText - 1)..(MaxCommentText + TextExtra - 1)}

\* the pattern matches the text, but the comment has no comhead element
CmNoHead == Comment(<<"a", "l", "h">>, FALSE, <<>>)

\* threads some of whose comments lack their comhead or their hnuser
RaggedThreads ==
    {<<CmNoHead, CmAnon, CmHit>>,
     <<CmAnon, CmNoHead>>,
     <<CmHit, CmNoHead, CmMiss, CmAnon>>}

\* the i-th comment of a long thread: its author is named after its place;
\* PatAl matches its text when hit is true
CmAt(i, hit) ==
    Comment(IF hit THEN <<"a", "l">> ELSE <<"n", "o">>, TRUE, <<ToString(i)>>)

\* threads of around MaxComments comments: every comment matches, or the
\* last one only
CrowdThreads ==
    {[i \in 1..n |-> CmAt(i, TRUE)] :
        n \in (MaxComments - 1)..(MaxComments + CommentsBeyond)}
    \cup {[i \in 1..n |-> CmAt(i, i = n)] :
        n \in (MaxComments - 1)..(MaxComments + CommentsBeyond)}

Budgets == (-1)..MaxBudget

Tasks ==
    [search_term : {"EYWA"}, regex_pattern : Patterns, max_results : Budgets,
     check_comments : BOOLEAN, headless : BOOLEAN]

\* the tasks that leave the browser window visible (the default mode)
VisibleTasks == {t \in Tasks : ~t.headless}

\* input_data.get('max_results', 10)
DefaultMaxResults == 10

\* {}
NoData == [k \in {} |-> 0]

\* dict.get(key, default)
Get(d, key, default) == IF key \in DOMAIN d THEN d[key] ELSE default

\* input_data = task.get('data', {}) and the five input_data.get(...)
ReadInput(t) ==
    LET input_data == Get(t, "data", NoData)
    IN  [search_term |-> Get(input_data, "search_term", "EYWA"),
         regex_pattern |-> Get(input_data, "regex_pattern", PatEywa),
         max_results |-> Get(input_data, "max_results", DefaultMaxResults),
         check_comments |-> Get(input_data, "check_comments", FALSE),
         headless |-> Get(input_data, "headless", FALSE)]

\* the tasks that carry their parameters under 'data'
DataTasks == {[data |-> t] : t \in VisibleTasks}

\* the task MockEywa.get_task of test_hn_custom.py returns
HarnessParams ==
    [search_term |-> "robotics", regex_pattern |-> PatRobot,
     max_results |-> 5, check_comments |-> FALSE]

HarnessTask == [input |-> HarnessParams]

\* main() before get_task returns: the parameters are not read yet
NoTask ==
    [search_term |-> "None", regex_pattern |-> <<>>, max_results |-> 0,
     check_comments |-> FALSE, headless |-> FALSE]

-----------------------------------------------------------------------------
(* search_hn_posts *)

\* int(m.group(1)) if m else 0
IntOr0(m) == IF m # <<>> THEN m[1] ELSE 0

\* The body of "for story in stories": <<match>> when the story is appended,
\* <<>> when it is skipped (no match, or an exception caught by the except).
ExamineStory(story, pattern) ==
    IF ~story.titleLink \/ ~story.meta THEN <<>>
    ELSE
      LET points == IntOr0(story.pts)
          comments == IntOr0(story.cmts)
          time_ago == IF story.age # <<>> THEN story.age[1] ELSE "unknown"
      IN  IF ~Search(pattern, story.title) THEN <<>>
          ELSE IF comments > 0 /\ story.clink = "missing" THEN <<>>
          ELSE <<[title |-> story.title,
                  url |-> story.href,
                  hn_url |-> IF comments > 0 THEN story.clink ELSE "None",
                  points |-> points,
                  comments |-> comments,
                  time |-> time_ago,
                  match_type |-> "title",
                  matched_text |-> MatchedText(pattern, story.title)]>>

\* mutant: the inner loop never breaks
BudgetMetNever(ms, max_results) == FALSE

\* if len(matches) >= max_results: break
BudgetMet(ms, max_results) == Len(ms) >= max_results

\* mutant: the match is appended twice
AppendMatchTwice(ms, m) == ms \o m \o m

\* mutant: the match is inserted at the front
AppendMatchFront(ms, m) == m \o ms

\* matches.append(match)
AppendMatch(ms, m) == ms \o m

\* mutant: a story without title link or metadata ends the scan of the page
RECURSIVE ScanStoriesAbortOnError(_, _, _, _, _)
ScanStoriesAbortOnError(sts, i, ms, max_results, pattern) ==
    IF i > Len(sts) THEN ms
    ELSE IF ~sts[i].titleLink \/ ~sts[i].meta THEN ms
    ELSE LET m == ExamineStory(sts[i], pattern)
             ms2 == AppendMatch(ms, m)
         IN  IF m # <<>> /\ BudgetMet(ms2, max_results) THEN ms2
             ELSE ScanStoriesAbortOnError(sts, i + 1, ms2, max_results,
                                          pattern)

\* for story in stories: ... (from the i-th story on)
RECURSIVE ScanStories(_, _, _, _, _)
ScanStories(sts, i, ms, max_results, pattern) ==
    IF i > Len(sts) THEN ms
    ELSE LET m == ExamineStory(sts[i], pattern)
             ms2 == AppendMatch(ms, m)
         IN  IF m # <<>> /\ BudgetMet(ms2, max_results) THEN ms2
             ELSE ScanStories(sts, i + 1, ms2, max_results, pattern)

\* mutant: the condition is tested after the first iteration only
LoopCondAfterFirstPage(ms, max_results, p) ==
    p = 1 \/ (Len(ms) < max_results /\ p <= MaxPages)

\* mutant: the loop has no page ceiling
LoopCondNoCeiling(ms, max_results, p) == Len(ms) < max_results

\* mutant: the loop gives up one page early
LoopCondFourPages(ms, max_results, p) ==
    Len(ms) < max_results /\ p < MaxPages

\* mutant: the page ceiling is off by one
LoopCondSixPages(ms, max_results, p) ==
    Len(ms) < max_results /\ p <= MaxPages + 1

\* while len(matches) < max_results and page <= 5
LoopCond(ms, max_results, p) == Len(ms) < max_results /\ p <= MaxPages

-----------------------------------------------------------------------------
(* scrape_hn_comments *)

\* mutant: a text of exactly 200 characters is truncated too
TruncateFrom200(text) ==
    IF Len(text) >= MaxCommentText
    THEN SubSeq(text, 1, MaxCommentText) \o <<".", ".", ".">>
    ELSE text

\* text[:200] + "..." if len(text) > 200 else text
Truncate(text) ==
    IF Len(text) > MaxCommentText
    THEN SubSeq(text, 1, MaxCommentText) \o <<".", ".", ".">>
    ELSE text

\* The body of "for comment in comments[:50]"
ExamineComment(c, story_url, story_title, pattern) ==
    IF ~Search(pattern, c.text) THEN <<>>
    ELSE IF ~c.comhead THEN <<>>
    ELSE <<[story_title |-> story_title,
            story_url |-> story_url,
            comment_text |-> Truncate(c.text),
            user |-> IF c.users # <<>> THEN c.users[1] ELSE "unknown",
            matched_text |-> MatchedText(pattern, c.text)]>>

\* mutant: every comment of the thread is tested
RECURSIVE ScanCommentsAll(_, _, _, _, _)
ScanCommentsAll(cs, i, story_url, story_title, pattern) ==
    IF i > Len(cs) THEN <<>>
    ELSE ExamineComment(cs[i], story_url, story_title, pattern)
         \o ScanCommentsAll(cs, i + 1, story_url, story_title, pattern)

\* mutant: a comment whose metadata cannot be read ends the scan
RECURSIVE ScanCommentsAbortOnError(_, _, _, _, _)
ScanCommentsAbortOnError(cs, i, story_url, story_title, pattern) ==
    IF i > Len(cs) \/ i > MaxComments THEN <<>>
    ELSE IF Search(pattern, cs[i].text) /\ ~cs[i].comhead THEN <<>>
    ELSE ExamineComment(cs[i], story_url, story_title, pattern)
         \o ScanCommentsAbortOnError(cs, i + 1, story_url, story_title,
                                     pattern)

\* for comment in comments[:50]: ... (from the i-th comment on)
RECURSIVE ScanComments(_, _, _, _, _)
ScanComments(cs, i, story_url, story_title, pattern) ==
    IF i > Len(cs) \/ i > MaxComments THEN <<>>
    ELSE ExamineComment(cs[i], story_url, story_title, pattern)
         \o ScanComments(cs, i + 1, story_url, story_title, pattern)

-----------------------------------------------------------------------------
(* Helpers over the history *)

RECURSIVE Flatten(_)
Flatten(ps) == IF ps = <<>> THEN <<>> ELSE Head(ps) \o Flatten(Tail(ps))

Served == Len(Flatten(fetched))

Min(a, b) == IF a < b THEN a ELSE b

\* the non-empty pages the site can still serve: a page holds at least
\* pagemin stories, the last one what is left
PagesLeft ==
    LET left == stock - Served
    IN  UNION {[1..n -> site] : n \in {m \in 1..left : m >= Min(pagemin, left)}}

Count(ev) == Cardinality({i \in 1..Len(log) : log[i][1] = ev})

-----------------------------------------------------------------------------
\* main() of hn_scraper.py is entered: nothing is read or opened yet
InitScraper ==
    /\ program = "hn_scraper"
    /\ pc = "get_task"
    /\ task = NoTask
    /\ driver = "none"
    /\ matches = <<>>
    /\ page = 1
    /\ ci = 1
    /\ comment_matches = <<>>
    /\ report = <<>>
    /\ status = "NONE"
    /\ fetched = <<>>
    /\ log = <<>>
    /\ test_resources = <<>>
    /\ test_passed = 0
    /\ test_failed = 0
    /\ test_results = 0
    /\ text_file_uuid = "None"
    /\ success = "unset"

\* how many stories a site holds: the site of three kinds holds one fewer
StockOf(s) == IF s = SiteClean THEN MaxEntries - 1 ELSE MaxEntries

\* a run of the scraper on a site of at most MaxEntries stories
Init ==
    /\ InitScraper
    /\ delivered \in DataTasks
    /\ site \in Sites
    /\ stock = StockOf(site)
    /\ pagemin = 1
    /\ forum = ThreadPool

\* the runs of the test harness, and the runs on the site whose links lack
\* their href
InitHarness ==
    /\ InitScraper
    /\ \/ delivered \in DataTasks /\ site = SiteNoHref
       \/ delivered = HarnessTask /\ site = SiteClean
    /\ stock = MaxEntries
    /\ pagemin = 1
    /\ forum = ThreadPool

\* the tasks of the long runs: a budget beyond the leading subset, with
\* check_comments true, false or absent
DeepTasks ==
    {[data |-> [regex_pattern |-> PatAl, max_results |-> TopPosts + DeepExtra,
                check_comments |-> c]] : c \in BOOLEAN}
    \cup {[data |-> [regex_pattern |-> PatAl,
                     max_results |-> TopPosts + DeepExtra]]}

\* a site of matching stories, with and without a thread
SiteDeep == {StAlpha, StAlthread}

\* the tasks of the runs over long comments
ThreadTasks ==
    {[data |-> [regex_pattern |-> PatAl, max_results |-> b,
                check_comments |-> c]] : b \in 1..MaxBudget, c \in BOOLEAN}

\* the runs over threads of long comments, on a small site
InitThreads ==
    /\ InitScraper
    /\ delivered \in ThreadTasks
    /\ site = SiteClean
    /\ stock = MaxBudget
    /\ pagemin = 1
    /\ forum = LongThreads

\* the tasks of the runs over crowded threads: one match is enough
CrowdTasks == {t \in ThreadTasks : t.data.max_results = 1}

\* the runs over crowded threads, on a small site
InitCrowd ==
    /\ InitScraper
    /\ delivered \in CrowdTasks
    /\ site = SiteClean
    /\ stock = MaxBudget
    /\ pagemin = 1
    /\ forum = CrowdThreads

\* the runs over threads whose comments lack metadata, on a small site
InitRagged ==
    /\ InitScraper
    /\ delivered \in CrowdTasks
    /\ site = SiteClean
    /\ stock = MaxBudget
    /\ pagemin = 1
    /\ forum = RaggedThreads

\* the runs over several threads, on a small site
InitOrder ==
    /\ InitScraper
    /\ delivered \in ThreadTasks
    /\ site = SiteThreads
    /\ stock = MaxBudget
    /\ pagemin = 1
    /\ forum = ThreadPool

\* the runs over pages some of whose stories do not parse, on a small site
InitMarkup ==
    /\ InitScraper
    /\ delivered \in ThreadTasks
    /\ site = SiteMarkup
    /\ stock = MaxBudget + 1
    /\ pagemin = 1
    /\ forum = ThreadPool

\* the long runs: the site holds more matching stories than the leading
\* subset has places, on pages of at least TopPosts stories
InitDeep ==
    /\ InitScraper
    /\ delivered \in DeepTasks
    /\ site = SiteDeep
    /\ stock = TopPosts + DeepExtra
    /\ pagemin = TopPosts
    /\ forum = ThreadPool

\* the tasks of the runs on a site that does not run dry: the default
\* pattern, which matches no title of the site, or a pattern that matches
\* every title, with the default budget or a budget of one
EndlessTasks ==
    {[data |-> [check_comments |-> c]] : c \in BOOLEAN}
    \cup {[data |-> [regex_pattern |-> PatAl, check_comments |-> c]] :
             c \in BOOLEAN}
    \cup {[data |-> [regex_pattern |-> PatAl, max_results |-> 1,
                     check_comments |-> c]] : c \in BOOLEAN}

\* sites of one kind of story: without and with a thread
SitesEndless == {{StAlpha}, {StAlthread}}

\* the runs on a site that still has stories after MaxPages pages
InitEndless ==
    /\ InitScraper
    /\ delivered \in EndlessTasks
    /\ site \in SitesEndless
    /\ stock = MaxPages + PagesBeyond
    /\ pagemin = 1
    /\ forum = {<<CmMiss, CmHit>>}

\* task = await eywa.get_task() ... eywa.update_task(eywa.PROCESSING)
GetTask ==
    /\ program = "hn_scraper"
    /\ pc = "get_task"
    /\ task' = ReadInput(delivered)
    /\ pc' = "setup"
    /\ status' = "PROCESSING"
    /\ UNCHANGED <<suite, env, driver, matches, page, ci, comment_matches,
                   report, fetched, log>>

\* driver = setup_driver(headless=headless)
SetupDriver ==
    /\ pc = "setup"
    /\ pc' = "search"
    /\ driver' = "open"
    /\ log' = Append(log, <<"acquire">>)
    /\ UNCHANGED <<suite, task, env, matches, page, ci, comment_matches,
                   report, status, fetched>>

\* setup_driver raises (no browser, driver download fails): driver stays None
SetupDriverFails ==
    /\ pc = "setup"
    /\ pc' = "except"
    /\ UNCHANGED <<suite, task, env, driver, matches, page, ci, comment_matches,
                   report, status, fetched, log>>

\* search_hn_posts entry: matches = [], page = 1, pattern = re.compile(...)
CompilePattern ==
    /\ pc = "search"
    /\ matches' = <<>>
    /\ page' = 1
    /\ pc' = IF Compiles(task.regex_pattern) THEN "loop" ELSE "except"
    /\ UNCHANGED <<suite, task, env, driver, ci, comment_matches, report,
                   status, fetched, log>>

\* driver.get(search_url) raises: nothing in search_hn_posts catches it
FetchPageRaises ==
    /\ pc = "loop"
    /\ LoopCond(matches, task.max_results, page)
    /\ log' = Append(log, <<"page", page - 1, "raise">>)
    /\ pc' = "except"
    /\ UNCHANGED <<suite, task, env, driver, matches, page, ci, comment_matches,
                   report, status, fetched>>

\* driver.get(search_url), then wait.until(...) times out: warn, break
FetchPageEmpty ==
    /\ pc = "loop"
    /\ LoopCond(matches, task.max_results, page)
    /\ log' = Append(log, <<"page", page - 1, "empty">>)
    /\ fetched' = Append(fetched, <<>>)
    /\ pc' = "comments"
    /\ UNCHANGED <<suite, task, env, driver, matches, page, ci, comment_matches,
                   report, status>>

\* mutant: the page counter is not advanced, the same page is asked for again
SearchPageRetry ==
    /\ pc = "loop"
    /\ LoopCond(matches, task.max_results, page)
    /\ \E stories \in PagesLeft :
         /\ fetched' = Append(fetched, stories)
         /\ matches' = ScanStories(stories, 1, matches, task.max_results,
                                   task.regex_pattern)
    /\ page' = page
    /\ log' = log \o << <<"page", page - 1, "ok">>, <<"sleep">> >>
    /\ UNCHANGED <<suite, pc, task, env, driver, ci, comment_matches, report,
                   status>>

\* mutant: the loop does not pause after a page
SearchPageNoPause ==
    /\ pc = "loop"
    /\ LoopCond(matches, task.max_results, page)
    /\ \E stories \in PagesLeft :
         /\ fetched' = Append(fetched, stories)
         /\ matches' = ScanStories(stories, 1, matches, task.max_results,
                                   task.regex_pattern)
    /\ page' = page + 1
    /\ log' = Append(log, <<"page", page - 1, "ok">>)
    /\ UNCHANGED <<suite, pc, task, env, driver, ci, comment_matches, report,
                   status>>

\* One iteration of the while loop on a page that renders:
\* driver.get(search_url), the wait succeeds, stories = find_elements(...),
\* for story in stories: ...; page += 1; time.sleep(1)
SearchPage ==
    /\ pc = "loop"
    /\ LoopCond(matches, task.max_results, page)
    /\ \E stories \in PagesLeft :
         /\ fetched' = Append(fetched, stories)
         /\ matches' = ScanStories(stories, 1, matches, task.max_results,
                                   task.regex_pattern)
    /\ page' = page + 1
    /\ log' = log \o << <<"page", page - 1, "ok">>, <<"sleep">> >>
    /\ UNCHANGED <<suite, pc, task, env, driver, ci, comment_matches, report,
                   status>>

\* the while condition is false: return matches
SearchReturns ==
    /\ pc = "loop"
    /\ ~LoopCond(matches, task.max_results, page)
    /\ pc' = "comments"
    /\ UNCHANGED <<suite, task, env, driver, matches, page, ci, comment_matches,
                   report, status, fetched, log>>

\* mutant: the leading subset has one place more
TopMatchesSix == SubSeq(matches, 1, Min(TopPosts + 1, Len(matches)))

\* post_matches[:5]
TopMatches == SubSeq(matches, 1, Min(TopPosts, Len(matches)))

\* if check_comments and post_matches: for match in post_matches[:5]
InCommentLoop ==
    /\ task.check_comments
    /\ matches # <<>>
    /\ ci <= Len(TopMatches)

\* mutant: every post of the leading subset has its thread fetched
QualifiesAlways(m) == TRUE

\* if match['hn_url'] and match['comments'] > 0
Qualifies(m) == m.hn_url # "None" /\ m.comments > 0

\* the post does not qualify: next post
SkipPost ==
    /\ pc = "comments"
    /\ InCommentLoop
    /\ ~Qualifies(matches[ci])
    /\ ci' = ci + 1
    /\ UNCHANGED <<suite, pc, task, env, driver, matches, page, comment_matches,
                   report, status, fetched, log>>

\* scrape_hn_comments: driver.get(story_url) raises, nothing catches it
FetchThreadRaises ==
    /\ pc = "comments"
    /\ InCommentLoop
    /\ Qualifies(matches[ci])
    /\ log' = Append(log, <<"thread", ci, "raise">>)
    /\ pc' = "except"
    /\ UNCHANGED <<suite, task, env, driver, matches, page, ci, comment_matches,
                   report, status, fetched>>

\* scrape_hn_comments: the wait for a comment times out: return []
FetchThreadEmpty ==
    /\ pc = "comments"
    /\ InCommentLoop
    /\ Qualifies(matches[ci])
    /\ log' = Append(log, <<"thread", ci, "empty">>)
    /\ ci' = ci + 1
    /\ UNCHANGED <<suite, pc, task, env, driver, matches, page, comment_matches,
                   report, status, fetched>>

\* mutant: the comment matches of a thread are put before the earlier ones
FetchThreadPrepending ==
    /\ pc = "comments"
    /\ InCommentLoop
    /\ Qualifies(matches[ci])
    /\ \E th \in forum :
         /\ comment_matches' =
                ScanComments(th, 1, matches[ci].hn_url, matches[ci].title,
                             task.regex_pattern) \o comment_matches
         /\ log' = Append(log, <<"thread", ci, "ok", th>>)
    /\ ci' = ci + 1
    /\ UNCHANGED <<suite, pc, task, env, driver, matches, page, report, status,
                   fetched>>

\* scrape_hn_comments: the thread renders; comment_matches.extend(comments)
FetchThread ==
    /\ pc = "comments"
    /\ InCommentLoop
    /\ Qualifies(matches[ci])
    /\ \E th \in forum :
         /\ comment_matches' = comment_matches \o
                ScanComments(th, 1, matches[ci].hn_url, matches[ci].title,
                             task.regex_pattern)
         /\ log' = Append(log, <<"thread", ci, "ok", th>>)
    /\ ci' = ci + 1
    /\ UNCHANGED <<suite, pc, task, env, driver, matches, page, report, status,
                   fetched>>

\* mutant: the total counts the post matches only
BuildReportPostsOnly ==
    [search_term |-> task.search_term,
     regex_pattern |-> task.regex_pattern,
     post_matches |-> matches,
     comment_matches |-> comment_matches,
     total_matches |-> Len(matches),
     mode |-> IF task.headless THEN "headless" ELSE "visible"]

\* report = {...}
BuildReport ==
    [search_term |-> task.search_term,
     regex_pattern |-> task.regex_pattern,
     post_matches |-> matches,
     comment_matches |-> comment_matches,
     total_matches |-> Len(matches) + Len(comment_matches),
     mode |-> IF task.headless THEN "headless" ELSE "visible"]

\* mutant: the report is emitted as soon as the page search has returned
EmitReportEarly ==
    /\ pc = "comments"
    /\ report' = <<BuildReport>>
    /\ log' = Append(log, <<"report">>)
    /\ pc' = "close"
    /\ UNCHANGED <<suite, task, env, driver, matches, page, ci, comment_matches,
                   status, fetched>>

\* eywa.report("HN scraping complete", report)
EmitReport ==
    /\ pc = "comments"
    /\ ~InCommentLoop
    /\ report' = <<BuildReport>>
    /\ log' = Append(log, <<"report">>)
    /\ pc' = "close"
    /\ UNCHANGED <<suite, task, env, driver, matches, page, ci, comment_matches,
                   status, fetched>>

\* mutant: a run without matches is closed as failed
CloseSuccessIfMatches ==
    /\ pc = "close"
    /\ status' = IF matches = <<>> THEN "ERROR" ELSE "SUCCESS"
    /\ log' = Append(log, <<"close", status'>>)
    /\ pc' = "finally"
    /\ UNCHANGED <<suite, task, env, driver, matches, page, ci, comment_matches,
                   report, fetched>>

\* eywa.close_task(eywa.SUCCESS)
CloseSuccess ==
    /\ pc = "close"
    /\ status' = "SUCCESS"
    /\ log' = Append(log, <<"close", "SUCCESS">>)
    /\ pc' = "finally"
    /\ UNCHANGED <<suite, task, env, driver, matches, page, ci, comment_matches,
                   report, fetched>>

\* mutant: the handler reports what was accumulated before it closes
HandleExceptionReporting ==
    /\ pc = "except"
    /\ report' = <<BuildReport>>
    /\ status' = "ERROR"
    /\ log' = log \o << <<"report">>, <<"close", "ERROR">> >>
    /\ pc' = "finally"
    /\ UNCHANGED <<suite, task, env, driver, matches, page, ci, comment_matches,
                   fetched>>

\* mutant: the handler releases the session before it signals the failure
HandleExceptionQuitFirst ==
    /\ pc = "except"
    /\ status' = "ERROR"
    /\ IF driver = "open"
       THEN /\ driver' = "quit"
            /\ log' = log \o << <<"quit">>, <<"close", "ERROR">> >>
       ELSE /\ driver' = driver
            /\ log' = Append(log, <<"close", "ERROR">>)
    /\ pc' = "finally"
    /\ UNCHANGED <<suite, task, env, matches, page, ci, comment_matches,
                   report, fetched>>

\* except Exception: eywa.error(...); eywa.close_task(eywa.ERROR)
HandleException ==
    /\ pc = "except"
    /\ status' = "ERROR"
    /\ log' = Append(log, <<"close", "ERROR">>)
    /\ pc' = "finally"
    /\ UNCHANGED <<suite, task, env, driver, matches, page, ci, comment_matches,
                   report, fetched>>

\* mutant: the session is released on the success path only
QuitDriverOnSuccess == driver = "open" /\ status = "SUCCESS"

\* if driver: driver.quit()
QuitDriver == driver = "open"

\* finally: if driver: driver.quit()   (after the events evs of the same step)
FinallyClause(evs) ==
    /\ IF QuitDriver
       THEN /\ driver' = "quit"
            /\ log' = log \o evs \o << <<"quit">> >>
       ELSE /\ driver' = driver
            /\ log' = log \o evs
    /\ pc' = "done"

\* the try block or the except block is left normally
Finally ==
    /\ pc = "finally"
    /\ FinallyClause(<<>>)
    /\ UNCHANGED <<suite, task, env, matches, page, ci, comment_matches,
                   report, status, fetched>>

\* A BaseException (cancellation, KeyboardInterrupt) raised while a page or a
\* thread fetch is in progress: "except Exception" does not catch it, the
\* finally clause runs and the exception leaves main().
Interrupt ==
    /\ \/ pc = "loop" /\ LoopCond(matches, task.max_results, page)
       \/ pc = "comments" /\ InCommentLoop /\ Qualifies(matches[ci])
    /\ FinallyClause(<< <<"interrupt">> >>)
    /\ UNCHANGED <<suite, task, env, matches, page, ci, comment_matches,
                   report, status, fetched>>

Next ==
    \/ GetTask
    \/ SetupDriver
    \/ SetupDriverFails
    \/ CompilePattern
    \/ FetchPageRaises
    \/ FetchPageEmpty
    \/ SearchPage
    \/ SearchReturns
    \/ SkipPost
    \/ FetchThreadRaises
    \/ FetchThreadEmpty
    \/ FetchThread
    \/ EmitReport
    \/ CloseSuccess
    \/ HandleException
    \/ Interrupt
    \/ Finally

Spec == Init /\ [][Next]_vars

SpecHarness == InitHarness /\ [][Next]_vars

SpecDeep == InitDeep /\ [][Next]_vars

SpecThreads == InitThreads /\ [][Next]_vars

SpecMarkup == InitMarkup /\ [][Next]_vars

SpecCrowd == InitCrowd /\ [][Next]_vars

SpecRagged == InitRagged /\ [][Next]_vars

SpecOrder == InitOrder /\ [][Next]_vars

\* Every step of main() is straight-line code between two waits that time
\* out (WebDriverWait(driver, 10)) or sleeps of fixed length: a step that
\* can be taken is taken.
SpecEndless == InitEndless /\ [][Next]_vars /\ WF_vars(Next)

-----------------------------------------------------------------------------
(* The file-upload test robots: FileUploadTestRobot of
   file_upload_test_robot.py (program "robot") and FileUploadTest of
   test_file_upload.py (program "test").  A test method is one step; what
   the file service answers decides which checks it records, whether it
   tracked its resource, and whether it returns a uuid. *)

\* the configurations a task delivers to the robot
UploadConfigs ==
    {NoData, [cleanup |-> FALSE], [test_folder_operations |-> FALSE],
     [cleanup |-> TRUE, test_folder_operations |-> TRUE]}

UploadTasks == {[data |-> c] : c \in UploadConfigs}

\* what a test method did: tracks, the resource was tracked; results, the
\* checks recorded in order; ret, a uuid (or True) was returned
Outcome(tracks, results, ret) ==
    [tracks |-> tracks, results |-> results, ret |-> ret]

\* every way n checks can turn out
Checks(n) == [1..n -> BOOLEAN]

\* test_create_folder.  robot: the creation fails or raises; it succeeds and
\* the verification passes, fails or raises.  test: both checks are made,
\* or create_folder or the verification raises
FolderOutcomes(prog) ==
    IF prog = "robot"
    THEN {Outcome(TRUE, <<FALSE>>, FALSE),
          Outcome(TRUE, <<TRUE, TRUE>>, TRUE),
          Outcome(TRUE, <<TRUE, FALSE>>, TRUE),
          Outcome(TRUE, <<TRUE, FALSE>>, FALSE)}
    ELSE {Outcome(TRUE, r, TRUE) : r \in Checks(2)}
         \cup {Outcome(TRUE, <<FALSE>>, FALSE)}
         \cup {Outcome(TRUE, <<b, FALSE>>, FALSE) : b \in BOOLEAN}

\* test_upload_text_file: the temporary file cannot be written (nothing is
\* tracked yet), the upload raises, a later call raises, or all checks are
\* made
TextOutcomes(prog) ==
    IF prog = "robot"
    THEN {Outcome(FALSE, <<FALSE>>, FALSE),
          Outcome(TRUE, <<FALSE>>, FALSE),
          Outcome(TRUE, <<TRUE, FALSE>>, FALSE),
          Outcome(TRUE, <<TRUE, FALSE>>, TRUE),
          Outcome(TRUE, <<TRUE, TRUE>>, TRUE)}
    ELSE {Outcome(FALSE, <<FALSE>>, FALSE),
          Outcome(TRUE, <<FALSE>>, FALSE),
          Outcome(TRUE, <<TRUE, FALSE>>, FALSE)}
         \cup {Outcome(TRUE, <<TRUE, b, FALSE>>, FALSE) : b \in BOOLEAN}
         \cup {Outcome(TRUE, <<TRUE>> \o r, TRUE) : r \in Checks(2)}

\* test_upload_json_content: as the text file, but the resource is tracked
\* first
JsonOutcomes(prog) == {o \in TextOutcomes(prog) : o.tracks}

\* test_download_to_file (test_file_upload.py only)
DownloadOutcomes ==
    {Outcome(FALSE, r, TRUE) : r \in Checks(2)}
    \cup {Outcome(FALSE, <<FALSE>>, FALSE)}
    \cup {Outcome(FALSE, <<b, FALSE>>, FALSE) : b \in BOOLEAN}

\* test_error_handling: two checks, none escapes
ErrorOutcomes == {Outcome(FALSE, r, TRUE) : r \in Checks(2)}

\* how many of the checks have the value b
Tally(results, b) == Cardinality({i \in 1..Len(results) : results[i] = b})

\* self.config.get("cleanup", True); FileUploadTest always cleans up
CleanupEnabled == program = "test" \/ Get(task, "cleanup", TRUE)

\* self.config.get("test_folder_operations", True); FileUploadTest always
\* runs the folder test
FolderTestEnabled ==
    program = "test" \/ Get(task, "test_folder_operations", TRUE)

\* one loop of cleanup(): a delete is attempted for each tracked resource of
\* the given type, in tracking order; f[i] tells how the delete of the i-th
\* resource ends
DeleteEvents(rs, f, type) ==
    LET idx == SelectSeq([i \in 1..Len(rs) |-> i],
                         LAMBDA i : rs[i].type = type)
    IN  [k \in 1..Len(idx) |-> <<"delete", type, idx[k], f[idx[k]]>>]

\* mutant: the first delete that fails ends the cleanup
CleanupEventsStopAtFailure(rs, f) ==
    LET all == DeleteEvents(rs, f, "file") \o DeleteEvents(rs, f, "folder")
        bad == {k \in 1..Len(all) : all[k][4] = "fail"}
    IN  IF bad = {} THEN all
        ELSE SubSeq(all, 1, CHOOSE k \in bad : \A h \in bad : k <= h)

\* cleanup(): the files first, then the folders
CleanupEvents(rs, f) ==
    DeleteEvents(rs, f, "file") \o DeleteEvents(rs, f, "folder")

\* main() of a file-upload robot is entered
InitUpload ==
    /\ program \in {"robot", "test"}
    /\ pc = "start"
    /\ delivered \in IF program = "robot" THEN UploadTasks
                     ELSE {[data |-> NoData]}
    /\ task = NoData
    /\ site = {}
    /\ stock = 0
    /\ pagemin = 1
    /\ forum = {}
    /\ driver = "none"
    /\ matches = <<>>
    /\ page = 1
    /\ ci = 1
    /\ comment_matches = <<>>
    /\ report = <<>>
    /\ status = "NONE"
    /\ fetched = <<>>
    /\ log = <<>>
    /\ test_resources = <<>>
    /\ test_passed = 0
    /\ test_failed = 0
    /\ test_results = 0
    /\ text_file_uuid = "None"
    /\ success = "unset"

\* robot: task = await eywa.get_task(); FileUploadTestRobot(config=input_data);
\* run_tests() starts with eywa.update_task(eywa.PROCESSING)
StartRobot ==
    /\ program = "robot"
    /\ pc = "start"
    /\ task' = Get(delivered, "data", NoData)
    /\ status' = "PROCESSING"
    /\ pc' = "folder"
    /\ UNCHANGED <<env, scraper, log, program, test_resources, test_passed,
                   test_failed, test_results, text_file_uuid, success>>

\* test: FileUploadTest(); run_all_tests()
StartTest ==
    /\ program = "test"
    /\ pc = "start"
    /\ pc' = "folder"
    /\ UNCHANGED <<task, env, scraper, status, log, suite>>

\* track_resource, and record_test / assert_test for each check of a test
Recorded(o, type) ==
    /\ test_resources' =
          IF o.tracks THEN Append(test_resources, [type |-> type])
          ELSE test_resources
    /\ test_passed' = test_passed + Tally(o.results, TRUE)
    /\ test_failed' = test_failed + Tally(o.results, FALSE)
    /\ test_results' =
          IF program = "robot" THEN test_results + Len(o.results)
          ELSE test_results

\* folder_uuid = await self.test_create_folder(); test: if not folder_uuid:
\* return (the finally clause follows)
RunFolderTest ==
    /\ pc = "folder"
    /\ FolderTestEnabled
    /\ \E o \in FolderOutcomes(program) :
         /\ Recorded(o, "folder")
         /\ IF program = "test" /\ ~o.ret
            THEN pc' = "cleanup" /\ success' = "None"
            ELSE pc' = "text" /\ success' = success
    /\ UNCHANGED <<task, env, scraper, status, log, program, text_file_uuid>>

\* robot: test_folder_operations is false
SkipFolderTest ==
    /\ pc = "folder"
    /\ ~FolderTestEnabled
    /\ pc' = "text"
    /\ UNCHANGED <<task, env, scraper, status, log, suite>>

\* text_file_uuid = await self.test_upload_text_file(folder_uuid)
RunTextTest ==
    /\ pc = "text"
    /\ \E o \in TextOutcomes(program) :
         /\ Recorded(o, "file")
         /\ text_file_uuid' = IF o.ret THEN "uuid" ELSE "None"
    /\ pc' = "json"
    /\ UNCHANGED <<task, env, scraper, status, log, program, success>>

\* json_file_uuid = await self.test_upload_json_content(folder_uuid)
RunJsonTest ==
    /\ pc = "json"
    /\ \E o \in JsonOutcomes(program) : Recorded(o, "file")
    /\ pc' = IF program = "test" /\ text_file_uuid # "None"
             THEN "download" ELSE "errors"
    /\ UNCHANGED <<task, env, scraper, status, log, program, text_file_uuid,
                   success>>

\* test: if text_file_uuid: await self.test_download_to_file(text_file_uuid)
RunDownloadTest ==
    /\ pc = "download"
    /\ \E o \in DownloadOutcomes : Recorded(o, "file")
    /\ pc' = "errors"
    /\ UNCHANGED <<task, env, scraper, status, log, program, text_file_uuid,
                   success>>

\* await self.test_error_handling()
RunErrorTests ==
    /\ pc = "errors"
    /\ \E o \in ErrorOutcomes : Recorded(o, "file")
    /\ pc' = "summary"
    /\ UNCHANGED <<task, env, scraper, status, log, program, text_file_uuid,
                   success>>

\* robot: report = {...}; eywa.report(message, report);
\* both: return self.test_failed == 0
Summarise ==
    /\ pc = "summary"
    /\ IF program = "robot"
       THEN /\ report' = <<[total_tests |-> test_passed + test_failed,
                            passed |-> test_passed,
                            failed |-> test_failed]>>
            /\ log' = Append(log, <<"report">>)
       ELSE UNCHANGED <<report, log>>
    /\ success' = IF test_failed = 0 THEN "True" ELSE "False"
    /\ pc' = "cleanup"
    /\ UNCHANGED <<task, env, driver, matches, page, ci, comment_matches,
                   fetched, status, program, test_resources, test_passed,
                   test_failed, test_results, text_file_uuid>>

\* the steps of the try block of run_tests / run_all_tests
InTests == pc \in {"folder", "text", "json", "download", "errors", "summary"}

\* an exception no test method catches (raised by a finally clause of a
\* test, by the summary or by eywa.report): except Exception: return False
UnexpectedException ==
    /\ InTests
    /\ success' = "False"
    /\ log' = Append(log, <<"exception">>)
    /\ pc' = "cleanup"
    /\ UNCHANGED <<task, env, scraper, status, program, test_resources,
                   test_passed, test_failed, test_results, text_file_uuid>>

\* a BaseException (cancellation) during the tests: the finally clause runs
\* and the exception leaves main()
CancelTests ==
    /\ InTests
    /\ success' = "cancelled"
    /\ log' = Append(log, <<"interrupt">>)
    /\ pc' = "cleanup"
    /\ UNCHANGED <<task, env, scraper, status, program, test_resources,
                   test_passed, test_failed, test_results, text_file_uuid>>

\* finally: await self.cleanup()
Cleanup ==
    /\ pc = "cleanup"
    /\ IF CleanupEnabled
       THEN \E f \in [1..Len(test_resources) -> {"ok", "fail"}] :
              log' = log \o << <<"cleanup", "run">> >>
                         \o CleanupEvents(test_resources, f)
       ELSE log' = Append(log, <<"cleanup", "disabled">>)
    /\ pc' = IF success = "cancelled" THEN "done" ELSE "main_close"
    /\ UNCHANGED <<task, env, scraper, status, suite>>

\* mutant: main closes the task with SUCCESS whatever run_tests returned
CloseTaskAlwaysSuccess ==
    /\ pc = "main_close"
    /\ status' = "SUCCESS"
    /\ log' = Append(log, <<"close", "SUCCESS">>)
    /\ pc' = "done"
    /\ UNCHANGED <<task, env, scraper, suite>>

\* main: if success: eywa.close_task(eywa.SUCCESS) else eywa.close_task(eywa.ERROR)
CloseTask ==
    /\ pc = "main_close"
    /\ status' = IF success = "True" THEN "SUCCESS" ELSE "ERROR"
    /\ log' = Append(log, <<"close", status'>>)
    /\ pc' = "done"
    /\ UNCHANGED <<task, env, scraper, suite>>

NextUpload ==
    \/ StartRobot
    \/ StartTest
    \/ RunFolderTest
    \/ SkipFolderTest
    \/ RunTextTest
    \/ RunJsonTest
    \/ RunDownloadTest
    \/ RunErrorTests
    \/ Summarise
    \/ UnexpectedException
    \/ CancelTests
    \/ Cleanup
    \/ CloseTask

SpecUpload == InitUpload /\ [][NextUpload]_vars

-----------------------------------------------------------------------------
(* Vocabulary of the properties *)

PageFetches == Count("page")
ThreadFetches == Count("thread")
Interrupted == Count("interrupt") > 0

\* some fetch of the given kind ended the given way
FetchEnded(kind, how) ==
    \E i \in 1..Len(log) : log[i][1] = kind /\ log[i][3] = how

\* the run reached the end of main()
Done == pc = "done"

\* search_hn_posts returned to main()
SearchReturned == pc = "comments" \/ report # <<>>

-----------------------------------------------------------------------------
(* C1: for every run with a positive max_results the accumulated entry
   matches never number more than max_results, and at most 5 page fetches
   are issued, whatever the pages hold and however the fetches end. *)
C1_BudgetAndCeiling ==
    task.max_results > 0 =>
        /\ Len(matches) <= task.max_results
        /\ PageFetches <= 5
        /\ report # <<>> => Len(report[1].post_matches) <= task.max_results

\* a reported run that used all five page fetches and filled its budget
C1_Witness ==
    /\ report # <<>>
    /\ task.max_results > 0
    /\ PageFetches = 5
    /\ Len(report[1].post_matches) = task.max_results

(* C2: a page fetch that fails (the navigation raises, or the page does not
   render) is handled like an empty page: the run still emits its report,
   holding the matches accumulated before, and closes with SUCCESS. *)
C2_PageFetchFailureIsNotAnError ==
    (Done /\ ~Interrupted /\ ThreadFetches = 0
          /\ (FetchEnded("page", "raise") \/ FetchEnded("page", "empty")))
    => /\ status = "SUCCESS"
       /\ report # <<>>
       /\ report[1].post_matches = matches

(* C3: with check_comments, a thread fetch that fails or times out does not
   fail the run: it ends with SUCCESS and a report, and every qualifying
   post among the first five still has its thread fetched. *)
C3_ThreadFetchFailureIsNotAnError ==
    (Done /\ ~Interrupted /\ task.check_comments
          /\ (FetchEnded("thread", "raise") \/ FetchEnded("thread", "empty")))
    => /\ status = "SUCCESS"
       /\ report # <<>>
       /\ \A k \in 1..Len(TopMatches) :
              Qualifies(matches[k]) =>
                  \E i \in 1..Len(log) : log[i][1] = "thread" /\ log[i][2] = k

(* C4: once the browser session is acquired it is released exactly once
   before the run ends, on every exit path, and no page or thread fetch is
   issued after the release. *)
C4_SessionReleasedOnce ==
    /\ Count("quit") <= 1
    /\ Count("quit") = 1 <=> driver = "quit"
    /\ (Done /\ Count("acquire") > 0) => Count("quit") = 1
    /\ \A i \in {k \in 1..Len(log) : log[k][1] = "quit"} :
           \A j \in (i + 1)..Len(log) : log[j][1] \notin {"page", "thread"}

\* a run cancelled in the middle of a fetch, after at least one page
C4_Witness ==
    /\ Done
    /\ Interrupted
    /\ PageFetches > 0
    /\ driver = "quit"

(* C5: with an invalid pattern the run fails before any fetch: no page or
   thread fetch is ever issued, no report is emitted, and the task is
   closed with ERROR. *)
C5_InvalidPatternFailsBeforeFetch ==
    task.regex_pattern = PatBad =>
        /\ PageFetches = 0
        /\ ThreadFetches = 0
        /\ report = <<>>
        /\ status # "SUCCESS"
        /\ Done => status = "ERROR"

\* the run with the invalid pattern opened the browser and then failed
C5_Witness ==
    /\ Done
    /\ task.regex_pattern = PatBad
    /\ status = "ERROR"
    /\ driver = "quit"

(* C6: in every emitted report total_matches is the number of post matches
   plus the number of comment matches. *)
C6_TotalIsSum ==
    report # <<>> =>
        report[1].total_matches =
            Len(report[1].post_matches) + Len(report[1].comment_matches)

\* a report that holds matches of both kinds
C6_Witness ==
    /\ report # <<>>
    /\ Len(report[1].post_matches) >= 2
    /\ Len(report[1].comment_matches) >= 3

-----------------------------------------------------------------------------
(* The stories of the traversal, as the properties see them *)

\* every Story element rendered so far, page by page, in on-page order
Traversal == Flatten(fetched)

\* the story yields an entry record: title link, metadata, and a discussion
\* link when it has comments
WellFormed(st) ==
    /\ st.titleLink
    /\ st.meta
    /\ (st.cmts # <<>> /\ st.cmts[1] > 0) => st.clink # "missing"

\* a well-formed story whose title the pattern matches
IsHit(st) == WellFormed(st) /\ Search(task.regex_pattern, st.title)

StoryKeys(sts) == [i \in 1..Len(sts) |-> <<sts[i].title, sts[i].href>>]
MatchKeys(ms) == [i \in 1..Len(ms) |-> <<ms[i].title, ms[i].url>>]

\* the matching entries of the traversal, in traversal order
HitKeys(sts) == StoryKeys(SelectSeq(sts, IsHit))

RECURSIVE IsSubseq(_, _)
IsSubseq(a, b) ==
    IF a = <<>> THEN TRUE
    ELSE IF b = <<>> THEN FALSE
    ELSE IF Head(a) = Head(b) THEN IsSubseq(Tail(a), Tail(b))
    ELSE IsSubseq(a, Tail(b))

\* the pages that rendered stories
ContentPages == Cardinality({i \in 1..Len(fetched) : fetched[i] # <<>>})

\* everything fetched before the last page
BeforeLastPage == Flatten(SubSeq(fetched, 1, Len(fetched) - 1))

\* how many of the entry matches, and how many of the stories sts, have url u
UrlCountMatches(u) == Cardinality({i \in 1..Len(matches) : matches[i].url = u})
UrlCountServed(sts, u) == Cardinality({i \in 1..Len(sts) : sts[i].href = u})

(* C7 as stated: the report is deduplicated, no two entry matches of a
   report share a canonical url, even when the site returns a story twice. *)
C7_ReportHasNoDuplicateUrl ==
    report # <<>> =>
        \A i, j \in 1..Len(report[1].post_matches) :
            i # j => report[1].post_matches[i].url # report[1].post_matches[j].url

(* C7 as amended: nothing is deduplicated; a story is appended each time
   it is returned and matches, so the entry matches hold a canonical url at
   most as often as the site returned a story with that url. *)
C7_UrlAtMostAsOftenAsServed ==
    LET sts == Traversal
    IN  \A i \in 1..Len(matches) :
            UrlCountMatches(matches[i].url) <= UrlCountServed(sts, matches[i].url)

\* a report with the same url twice, from two different pages
C7_Witness ==
    /\ report # <<>>
    /\ Len(report[1].post_matches) = 2
    /\ report[1].post_matches[1].url = report[1].post_matches[2].url
    /\ Len(fetched) >= 2
    /\ Len(fetched[1]) = 1

(* C8: the entry matches are a subsequence of the traversal (page 0 in
   on-page order, then page 1, ...): an entry met earlier stands earlier,
   whatever the scores and reply counts. *)
C8_MatchesFollowTraversal ==
    IsSubseq(MatchKeys(matches), StoryKeys(Traversal))

\* a report whose first match has the lower score and the higher reply count
C8_Witness ==
    /\ report # <<>>
    /\ Len(report[1].post_matches) = 2
    /\ report[1].post_matches[1].points < report[1].post_matches[2].points
    /\ report[1].post_matches[1].comments > report[1].post_matches[2].comments

(* C9: when the matching entries met reach max_results within a page, the
   entry matches are exactly the first max_results of them in traversal
   order, and no page after that one is fetched. *)
C9_StopsWhenBudgetMet ==
    LET hits == HitKeys(Traversal)
    IN  (task.max_results > 0 /\ Len(hits) >= task.max_results) =>
            /\ MatchKeys(matches) = SubSeq(hits, 1, task.max_results)
            /\ Len(HitKeys(BeforeLastPage)) < task.max_results
            /\ PageFetches = Len(fetched)

\* max_results = 2 and a first page of four matching entries
C9_Witness ==
    /\ report # <<>>
    /\ task.max_results = 2
    /\ Len(fetched) = 1
    /\ Len(fetched[1]) = 4
    /\ Len(HitKeys(Traversal)) = 4
    /\ Len(report[1].post_matches) = 2
    /\ PageFetches = 1

(* C10: when fewer than max_results entries match on the n < 5 pages the
   site holds, the search goes on until the fetch of page n+1 finds no
   stories: it has then fetched the n pages, the entry matches are exactly
   the matching entries in order, and the run ends with SUCCESS. *)
C10_SearchRunsToExhaustion ==
    LET hits == HitKeys(Traversal)
    IN  (/\ pc \in {"comments", "close"} \/ report # <<>> \/ ThreadFetches > 0
         /\ Len(hits) < task.max_results
         /\ ContentPages < 5)
        => /\ fetched # <<>>
           /\ fetched[Len(fetched)] = <<>>
           /\ ContentPages = Len(fetched) - 1
           /\ PageFetches = ContentPages + 1
           /\ FetchEnded("page", "empty")
           /\ MatchKeys(matches) = hits
           /\ (Done /\ ~Interrupted /\ ~FetchEnded("thread", "raise"))
                  => status = "SUCCESS"

\* three pages of stories, one match on the second page, then no page 4
C10_Witness ==
    /\ Done
    /\ status = "SUCCESS"
    /\ task.max_results = 2
    /\ Len(fetched) = 4
    /\ fetched[4] = <<>>
    /\ Len(HitKeys(fetched[1])) = 0
    /\ Len(HitKeys(fetched[2])) = 1
    /\ Len(HitKeys(fetched[3])) = 0
    /\ Len(report[1].post_matches) = 1

-----------------------------------------------------------------------------
(* C11: no thread fetch is issued for an entry match whose reply count is 0
   or whose thread url is absent, even with check_comments and among the
   first five matches: every thread fetch of a run is for a match with a
   positive reply count and a thread url. *)
C11_NoFetchWithoutThread ==
    \A i \in 1..Len(log) :
        log[i][1] = "thread" =>
            /\ matches[log[i][2]].comments > 0
            /\ matches[log[i][2]].hn_url # "None"

\* check_comments is set, the first match announces replies but has no
\* thread url, the second has both: only the second thread is fetched
C11_Witness ==
    /\ Done
    /\ status = "SUCCESS"
    /\ task.check_comments
    /\ Len(matches) = 2
    /\ matches[1].comments > 0
    /\ matches[1].hn_url = "None"
    /\ matches[2].hn_url # "None"
    /\ ThreadFetches = 1

(* C12: thread fetches are issued only for the first 5 entry matches and
   only with check_comments: a run issues at most 5 of them, none for the
   6th and later matches, and none at all, with comment_matches empty,
   when check_comments is false or absent. *)
C12_FetchesOnlyLeadingSubset ==
    /\ ThreadFetches <= 5
    /\ \A i \in 1..Len(log) : log[i][1] = "thread" => log[i][2] <= 5
    /\ ("check_comments" \notin DOMAIN delivered.data
            \/ ~delivered.data.check_comments)
         => ThreadFetches = 0 /\ comment_matches = <<>>

\* six matches with a thread each: five thread fetches, none for the sixth
C12_Witness ==
    /\ Done
    /\ status = "SUCCESS"
    /\ Len(matches) = 6
    /\ \A k \in 1..6 : matches[k].hn_url # "None" /\ matches[k].comments > 0
    /\ ThreadFetches = 5
    /\ \A i \in 1..Len(log) : log[i][1] = "thread" => log[i][2] # 6

\* the threads that rendered, in the order of their fetches
Rendered ==
    LET ok == SelectSeq(log, LAMBDA e : e[1] = "thread" /\ e[3] = "ok")
    IN  [i \in 1..Len(ok) |-> ok[i][4]]

\* the comment yields a comment match: the pattern matches its text and its
\* comhead element is there
Yields(c) == Search(task.regex_pattern, c.text) /\ c.comhead

\* the comments behind the comment matches, in the order of the matches
Sources ==
    LET rd == Rendered
    IN  Flatten([i \in 1..Len(rd) |->
            SelectSeq(SubSeq(rd[i], 1, Min(50, Len(rd[i]))), Yields)])

(* C13: a comment match of a comment whose text has more than 200
   characters stores the first 200 characters followed by the marker "...";
   a text of at most 200 characters, 200 included, is stored unchanged. *)
C13_TextTruncatedBeyond200 ==
    LET src == Sources
    IN  /\ Len(comment_matches) = Len(src)
        /\ \A k \in 1..Len(src) :
               LET text == src[k].text
                   stored == comment_matches[k].comment_text
               IN  IF Len(text) > 200
                   THEN /\ Len(stored) = 203
                        /\ SubSeq(stored, 1, 200) = SubSeq(text, 1, 200)
                        /\ SubSeq(stored, 201, 203) = <<".", ".", ".">>
                   ELSE stored = text

\* a thread with a comment of 200 characters, stored whole, and one of 201,
\* stored as 200 characters and the marker
C13_Witness ==
    /\ Done
    /\ status = "SUCCESS"
    /\ Len(comment_matches) = 2
    /\ Len(Sources[1].text) = 200
    /\ Len(comment_matches[1].comment_text) = 200
    /\ Len(Sources[2].text) = 201
    /\ Len(comment_matches[2].comment_text) = 203

(* C14: a run whose search ends without an entry match is not a failure:
   once the session is open and the pattern compiled, a run that no fetch
   failure and no cancellation ends and that accumulates no match emits a
   report with empty post_matches and comment_matches and total_matches 0
   and closes with SUCCESS, with check_comments true or false. *)
C14_NoMatchIsSuccess ==
    (/\ Done
     /\ matches = <<>>
     /\ Count("acquire") = 1
     /\ task.regex_pattern # PatBad
     /\ ~FetchEnded("page", "raise")
     /\ ~Interrupted)
    => /\ status = "SUCCESS"
       /\ report # <<>>
       /\ report[1].post_matches = <<>>
       /\ report[1].comment_matches = <<>>
       /\ report[1].total_matches = 0
       /\ ThreadFetches = 0

\* check_comments is set, two pages of stories are searched, none matches
C14_Witness ==
    /\ Done
    /\ status = "SUCCESS"
    /\ task.check_comments
    /\ task.max_results > 0
    /\ ContentPages = 2
    /\ report # <<>>
    /\ report[1].post_matches = <<>>
    /\ report[1].total_matches = 0

\* a navigation raised during the run
FetchRaised == FetchEnded("page", "raise") \/ FetchEnded("thread", "raise")

(* C15 as stated: a run that fails after matches were accumulated reports
   the partial report, holding the matches found before the failure, and
   then signals the failure status. *)
C15_FailureReportsPartial ==
    (Done /\ FetchRaised /\ matches # <<>>) =>
        /\ report # <<>>
        /\ report[1].post_matches = matches
        /\ status = "ERROR"

(* C15 as amended: a run that fails after matches were accumulated emits
   no report, the matches found before the failure are dropped, and the
   failure status ERROR is signalled, once. *)
C15_FailureEmitsNoReport ==
    (FetchRaised /\ matches # <<>>) =>
        /\ report = <<>>
        /\ Count("report") = 0
        /\ status # "SUCCESS"
        /\ Done => status = "ERROR" /\ Count("close") = 1

\* the second page fetch raises after the first page gave a match
C15_Witness ==
    /\ Done
    /\ status = "ERROR"
    /\ Len(matches) = 1
    /\ Len(fetched) = 1
    /\ FetchEnded("page", "raise")
    /\ report = <<>>

\* the matching entries met before the j-th story of page p
HitsBefore(p, j) ==
    Len(HitKeys(Flatten(SubSeq(fetched, 1, p - 1))
                \o SubSeq(fetched[p], 1, j - 1)))

\* some story rendered so far did not parse
ParseFailed == \E i \in 1..Len(Traversal) : ~WellFormed(Traversal[i])

(* C20: a story that does not parse (no title link, no metadata) is the
   only one skipped: a matching story that follows it on the same page is
   still appended, in its place, unless max_results matches were met
   before it; the run is not aborted and ends with SUCCESS. *)
C20_ParseFailureSkipsOneEntry ==
    /\ \A p \in 1..Len(fetched) : \A j \in 1..Len(fetched[p]) :
          (/\ IsHit(fetched[p][j])
           /\ \E i \in 1..(j - 1) : ~WellFormed(fetched[p][i])
           /\ HitsBefore(p, j) < task.max_results)
          => /\ Len(matches) > HitsBefore(p, j)
             /\ matches[HitsBefore(p, j) + 1].title = fetched[p][j].title
             /\ matches[HitsBefore(p, j) + 1].url = fetched[p][j].href
    /\ (Done /\ ParseFailed /\ ~Interrupted /\ ~FetchRaised)
          => status = "SUCCESS" /\ report # <<>>

\* a page whose first story has no title link and whose second has no
\* metadata, followed by a matching story: the report holds the third
C20_Witness ==
    /\ Done
    /\ status = "SUCCESS"
    /\ Len(fetched[1]) = 3
    /\ ~fetched[1][1].titleLink
    /\ ~fetched[1][2].meta
    /\ IsHit(fetched[1][3])
    /\ Len(report[1].post_matches) = 1
    /\ report[1].post_matches[1].url = fetched[1][3].href

(* C16: when get_task delivers the parameters in the shape the test harness
   supplies them, the run uses them: the report's search_term and
   regex_pattern are the supplied ones and the entry matches number at most
   the supplied max_results. *)
C16_HarnessParametersUsed ==
    (delivered = HarnessTask /\ report # <<>>) =>
        /\ report[1].search_term = HarnessParams.search_term
        /\ report[1].regex_pattern = HarnessParams.regex_pattern
        /\ Len(report[1].post_matches) <= HarnessParams.max_results

(* C18: every entry match has a non-empty title and a present url,
   whatever the pages hold. *)
C18_TitleAndUrlPresent ==
    \A i \in 1..Len(matches) :
        /\ matches[i].title # <<>>
        /\ matches[i].url # "None"

-----------------------------------------------------------------------------
(* The deletes of a run of a file-upload robot *)

\* the positions of the delete attempts in the log
Deletes == {i \in 1..Len(log) : log[i][1] = "delete"}

\* the task asks for no cleanup
CleanupOff ==
    /\ program = "robot"
    /\ "cleanup" \in DOMAIN delivered.data
    /\ ~delivered.data.cleanup

(* C19: in the file-upload robots cleanup runs on every exit path of the
   test run; when cleanup is enabled a delete is attempted exactly once for
   every tracked resource, every file delete before any folder delete, and
   a failed delete does not stop the remaining ones; when the cleanup
   option is false no delete is attempted. *)
C19_CleanupOnEveryExit ==
    LET dels == Deletes
    IN  /\ pc \in {"main_close", "done"} => Count("cleanup") = 1
        /\ (pc \in {"main_close", "done"} /\ ~CleanupOff) =>
              \A k \in 1..Len(test_resources) :
                  /\ Cardinality({i \in dels : log[i][3] = k}) = 1
                  /\ \A i \in dels :
                        log[i][3] = k => log[i][2] = test_resources[k].type
        /\ \A i, j \in dels :
              (log[i][2] = "folder" /\ log[j][2] = "file") => j < i
        /\ CleanupOff => dels = {}

\* the run tracked a folder and two files and ended by an unexpected
\* exception; the first file delete failed and the other two deletes
\* were still attempted, the folder last
C19_Witness ==
    /\ Done
    /\ Count("exception") = 1
    /\ Len(test_resources) = 3
    /\ Cardinality(Deletes) = 3
    /\ \E i \in Deletes :
          /\ log[i][4] = "fail"
          /\ log[i + 1][1] = "delete"
          /\ log[i + 2][1] = "delete"
          /\ log[i + 2][2] = "folder"

-----------------------------------------------------------------------------
\* the page fetches of the run, in the order they were issued
PageEvents == SelectSeq(log, LAMBDA e : e[1] = "page")

(* C21: the page search is strictly sequential and never retries: the page
   indices requested are 0, 1, 2, ... with no gap and no repeat, and a page
   after the first is requested only when the page before it was fetched,
   rendered stories, and left the accumulator below max_results. *)
C21_PagesSequentialNoRetry ==
    [][PageFetches' # PageFetches =>
          /\ PageFetches' = PageFetches + 1
          /\ PageEvents'[PageFetches'][2] = PageFetches
          /\ Len(matches) < task.max_results
          /\ PageFetches > 0 =>
                /\ PageEvents[PageFetches][3] = "ok"
                /\ Len(fetched) = PageFetches
                /\ fetched[PageFetches] # <<>>]_vars

\* four pages were requested, with the indices 0, 1, 2 and 3; the first
\* three rendered stories, the fourth did not, and the run ended
C21_Witness ==
    /\ Done
    /\ status = "SUCCESS"
    /\ PageFetches = 4
    /\ \A k \in 1..4 : PageEvents[k][2] = k - 1
    /\ \A k \in 1..3 : PageEvents[k][3] = "ok"
    /\ PageEvents[4][3] = "empty"

\* the positions of the page fetches in the log
PagePositions == {i \in 1..Len(log) : log[i][1] = "page"}

(* C22: every page fetch other than the first of a run is preceded by a
   politeness pause made after the page fetch before it: no two page
   fetches happen without a pause between them. *)
C22_PauseBetweenPageFetches ==
    LET ps == PagePositions
    IN  \A i, j \in ps :
            i < j => \E k \in (i + 1)..(j - 1) : log[k][1] = "sleep"

\* a run of four page fetches, the last of which found no stories, with
\* three pauses
C22_Witness ==
    /\ Done
    /\ PageFetches = 4
    /\ FetchEnded("page", "empty")
    /\ Count("sleep") = 3

(* C23: every run terminates, whatever the pattern and max_results, also
   on a site that keeps serving non-empty pages: the search loop makes at
   most 5 iterations, and the run issues at most 5 page fetches and at most
   5 thread fetches. *)
C23_RunTerminatesWithinCeilings ==
    /\ <>Done
    /\ [](PageFetches <= 5 /\ ThreadFetches <= 5 /\ page <= 6)

\* five pages of one story each were searched without a match, the site
\* still held a story, and the run ended with SUCCESS
C23_Witness ==
    /\ Done
    /\ status = "SUCCESS"
    /\ PageFetches = 5
    /\ ~FetchEnded("page", "empty")
    /\ Served < stock
    /\ matches = <<>>

\* the authors named in a sequence of comment matches
Users(cms) == [k \in 1..Len(cms) |-> cms[k].user]

\* the authors of the comments of a thread that the pattern matches, among
\* the first n comments, in document order
HitAuthors(th, n) ==
    LET hits == SelectSeq(SubSeq(th, 1, Min(n, Len(th))), Yields)
    IN  [k \in 1..Len(hits) |-> hits[k].users[1]]

(* C24: of every thread that is traversed only the first 50 comments in
   document order are tested against the pattern: a matching comment at
   place 51 or later yields no comment match, and a thread contributes at
   most 50 comment matches, in document order. *)
C24_OnlyFirstFiftyComments ==
    LET rd == Rendered
    IN  /\ Users(comment_matches) =
              Flatten([i \in 1..Len(rd) |-> HitAuthors(rd[i], 50)])
        /\ Len(comment_matches) <= 50 * Len(rd)
        /\ \A i \in 1..Len(rd) : \A j \in 51..Len(rd[i]) :
              \A k \in 1..Len(comment_matches) :
                  comment_matches[k].user # rd[i][j].users[1]

\* one thread of 51 matching comments was traversed: 50 comment matches,
\* from the first comment to the 50th
C24_Witness ==
    /\ Done
    /\ status = "SUCCESS"
    /\ Len(Rendered) = 1
    /\ Len(Rendered[1]) = 51
    /\ Yields(Rendered[1][51])
    /\ Len(comment_matches) = 50
    /\ comment_matches[1].user = Rendered[1][1].users[1]
    /\ comment_matches[50].user = Rendered[1][50].users[1]

(* C25: a comment among the first 50 whose text matches and whose metadata
   holds no author handle still yields a comment match, with the author
   "unknown"; a comment whose metadata cannot be read is the only one
   skipped, the scan goes on with the next comment. *)
C25_UnknownAuthorAndSkip ==
    LET src == Sources
    IN  /\ Len(comment_matches) = Len(src)
        /\ \A k \in 1..Len(src) :
              /\ comment_matches[k].comment_text = src[k].text
              /\ IF src[k].users = <<>>
                 THEN comment_matches[k].user = "unknown"
                 ELSE comment_matches[k].user = src[k].users[1]

\* a thread whose first comment has no metadata, whose second has no author
\* handle and whose third has one: two comment matches, the first by
\* "unknown"
C25_Witness ==
    /\ Done
    /\ status = "SUCCESS"
    /\ Len(Rendered) = 1
    /\ Rendered[1] = <<CmNoHead, CmAnon, CmHit>>
    /\ Len(comment_matches) = 2
    /\ comment_matches[1].user = "unknown"
    /\ comment_matches[2].user = "pg"

\* how many of the first n comments of a thread yield a comment match
YieldCount(th, n) == Len(SelectSeq(SubSeq(th, 1, Min(n, Len(th))), Yields))

\* for each comment match that the rendered threads give, the place of its
\* parent entry in the entry matches, in the order the threads were fetched
Parents ==
    LET ok == SelectSeq(log, LAMBDA e : e[1] = "thread" /\ e[3] = "ok")
    IN  Flatten([i \in 1..Len(ok) |->
            [j \in 1..YieldCount(ok[i][4], 50) |-> ok[i][2]]])

\* the elements of a sequence
Range(q) == {q[i] : i \in 1..Len(q)}

\* the places of the parent entries of the thread fetches, in fetch order
FetchedParents ==
    LET th == SelectSeq(log, LAMBDA e : e[1] = "thread")
    IN  [i \in 1..Len(th) |-> th[i][2]]

(* C26: the comment matches of one parent entry are contiguous, the comment
   matches of an earlier parent entry all precede those of a later one,
   and threads are fetched in the order of their parent entries; the
   report carries the comment matches in that order. *)
C26_CommentMatchesFollowParents ==
    LET ps == Parents
        fp == FetchedParents
    IN  /\ Len(comment_matches) = Len(ps)
        /\ \A k \in 1..Len(ps) :
              /\ comment_matches[k].story_url = matches[ps[k]].hn_url
              /\ comment_matches[k].story_title = matches[ps[k]].title
        /\ \A k, l \in 1..Len(ps) : k < l => ps[k] <= ps[l]
        /\ \A i, j \in 1..Len(fp) : i < j => fp[i] < fp[j]
        /\ report # <<>> => report[1].comment_matches = comment_matches

\* two different parent entries, a thread of two comment matches each: the
\* report holds the two of the first, then the two of the second
C26_Witness ==
    /\ report # <<>>
    /\ Len(matches) = 2
    /\ matches[1].hn_url # matches[2].hn_url
    /\ Len(report[1].comment_matches) = 4
    /\ \A k \in 1..2 :
          report[1].comment_matches[k].story_url = matches[1].hn_url
    /\ \A k \in 3..4 :
          report[1].comment_matches[k].story_url = matches[2].hn_url

\* the fields of the report that do not depend on the clock
ReportFields ==
    {"search_term", "regex_pattern", "post_matches", "comment_matches",
     "total_matches", "mode"}

\* the positions of the report emissions in the log
ReportPositions == {i \in 1..Len(log) : log[i][1] = "report"}

(* C27: the report is emitted whole or not at all: at most once in a run,
   only after the page search and all thread traversals have finished,
   with all of its fields; a run closed with ERROR has emitted no report,
   and a run is closed with SUCCESS only after its report was emitted. *)
C27_ReportWholeOrNotAtAll ==
    LET rp == ReportPositions
    IN  /\ Cardinality(rp) <= 1
        /\ rp # {} <=> report # <<>>
        /\ report # <<>> =>
              /\ DOMAIN report[1] = ReportFields
              /\ report[1].post_matches = matches
              /\ report[1].comment_matches = comment_matches
              /\ task.check_comments =>
                    \A k \in 1..Len(TopMatches) :
                        Qualifies(matches[k]) => k \in Range(FetchedParents)
        /\ \A i \in rp : \A j \in (i + 1)..Len(log) :
              log[j][1] \notin {"page", "thread"}
        /\ status = "ERROR" => rp = {}
        /\ status = "SUCCESS" =>
              \E i \in rp : \E j \in (i + 1)..Len(log) : log[j][1] = "close"

\* a run with check_comments that searched two pages and traversed two
\* threads, reported once and was closed with SUCCESS
C27_Witness ==
    /\ Done
    /\ status = "SUCCESS"
    /\ ContentPages = 2
    /\ ThreadFetches = 2
    /\ Cardinality(ReportPositions) = 1
    /\ Len(report[1].comment_matches) > 0

(* C28: every entry match has its thread url absent exactly when its reply
   count is 0: an entry without replies gets no thread url, and a matching
   entry with replies is accumulated only with the thread url of its
   discussion link (it is dropped when the link cannot be located). *)
C28_ThreadUrlAbsentIffNoReplies ==
    /\ \A i \in 1..Len(matches) :
          matches[i].hn_url = "None" <=> matches[i].comments = 0
    /\ \A i \in 1..Len(Traversal) :
          LET st == Traversal[i]
          IN  (st.cmts # <<>> /\ st.cmts[1] > 0 /\ st.clink = "missing") =>
                  <<st.title, st.href>> \notin Range(MatchKeys(matches))

\* the phase an event belongs to
Phase(e) ==
    CASE e[1] = "acquire" -> 0
      [] e[1] \in {"page", "sleep"} -> 1
      [] e[1] = "thread" -> 2
      [] e[1] = "report" -> 3
      [] e[1] = "close" -> 4
      [] e[1] = "quit" -> 5
      [] OTHER -> 6

(* C29: the events of a successful run occur in a fixed order of phases:
   the session is acquired, then come all page fetches, then all thread
   fetches, then the report, then the SUCCESS status, then the release of
   the session; in a run that fails the ERROR status is signalled before
   the session is released. *)
C29_PhaseOrder ==
    /\ status = "SUCCESS" =>
          /\ log[1] = <<"acquire">>
          /\ \A i, j \in 1..Len(log) :
                i < j => /\ Phase(log[i]) <= Phase(log[j])
                         /\ Phase(log[i]) \in {0, 3, 4, 5} =>
                                Phase(log[i]) < Phase(log[j])
          /\ Count("report") = 1
          /\ Done => log[Len(log)] = <<"quit">>
    /\ \A i, j \in 1..Len(log) :
          (log[i][1] = "thread" /\ log[j][1] = "page") => j < i
    /\ status = "ERROR" =>
          /\ \A i, j \in 1..Len(log) :
                (log[i][1] = "close" /\ log[j][1] = "quit") => i < j
          /\ (Done /\ Count("acquire") = 1) =>
                log[Len(log)] = <<"quit">> /\ Count("close") = 1

\* a successful run of two page fetches and two thread fetches, ended by
\* the release of the session
C29_Witness ==
    /\ Done
    /\ status = "SUCCESS"
    /\ PageFetches = 2
    /\ ThreadFetches = 2
    /\ log[Len(log)] = <<"quit">>
    /\ log[Len(log) - 1] = <<"close", "SUCCESS">>
    /\ log[Len(log) - 2] = <<"report">>

(* C30: when max_results is 0 or negative the body of the search loop is
   never run: no page fetch and no thread fetch is issued, and the run,
   once the session is open and the pattern compiled, emits a report with
   empty post_matches and total_matches 0 and closes with SUCCESS. *)
C30_NoBudgetNoFetch ==
    delivered.data.max_results <= 0 =>
        /\ PageFetches = 0
        /\ ThreadFetches = 0
        /\ fetched = <<>>
        /\ matches = <<>>
        /\ Count("sleep") = 0
        /\ (Done /\ Count("acquire") = 1 /\ task.regex_pattern # PatBad) =>
              /\ status = "SUCCESS"
              /\ report # <<>>
              /\ report[1].post_matches = <<>>
              /\ report[1].total_matches = 0

\* a run with max_results -1 and check_comments set ended with SUCCESS and
\* an empty report, the session released
C30_Witness ==
    /\ Done
    /\ status = "SUCCESS"
    /\ task.max_results = -1
    /\ task.check_comments
    /\ report # <<>>
    /\ report[1].total_matches = 0
    /\ log = << <<"acquire">>, <<"report">>, <<"close", "SUCCESS">>,
                <<"quit">> >>

-----------------------------------------------------------------------------
\* the test run was cancelled: the exception leaves main(), no status follows
Cancelled == success = "cancelled"

(* C31: in the file-upload test robot test_passed + test_failed always
   equals the number of recorded results; the task is closed with SUCCESS
   exactly when run_tests ended without an unexpected exception and with
   test_failed = 0, and with ERROR otherwise; one status is signalled per
   run. *)
C31_CountersAndCloseStatus ==
    program = "robot" =>
        /\ test_passed + test_failed = test_results
        /\ Count("close") <= 1
        /\ status \in {"SUCCESS", "ERROR"} <=> Count("close") = 1
        /\ (Done /\ ~Cancelled) =>
              /\ Count("close") = 1
              /\ status = "SUCCESS" <=>
                    (Count("exception") = 0 /\ test_failed = 0)
              /\ status = "ERROR" <=>
                    (Count("exception") > 0 \/ test_failed > 0)

\* the robot ran its four tests, eight results were recorded, all passed,
\* and the task was closed with SUCCESS
C31_Witness ==
    /\ program = "robot"
    /\ Done
    /\ status = "SUCCESS"
    /\ test_results = 8
    /\ test_passed = 8
    /\ Count("close") = 1

=============================================================================
